---- MODULE Spec2Model ----
(***************************************************************************)
(* Model of ci/praktika/gh.py: the gh command executor with retries, the   *)
(* pull-request comment operations with their temporary files, the merge   *)
(* of delimited sections into a comment body, and the failure summary.     *)
(*                                                                         *)
(* Text is a sequence of tokens.  A delimiter is three tokens: the fixed   *)
(* text before the tag, the tag, the fixed text after it; every other      *)
(* token stands for a piece of text that holds no part of a delimiter.     *)
(***************************************************************************)
EXTENDS Integers, Sequences, FiniteSets, TLC

VARIABLES
    \* ---- merge step on its own (lines 170-177)
    mpc, mBody, mTag, mContent, mOnce, mTwice,
    \* ---- the operations of class GH
    pc, op, MAX_RETRIES_GH, tags, only_update, substring, new_body,
    comments, comment_id, existing_body, body, path, files, fileText,
    cmd, shell_res, exits, sleeps, result,
    \* ---- ResultSummaryForGH
    spc, root, summary, markdown

mergeVars == <<mpc, mBody, mTag, mContent, mOnce, mTwice>>
ghVars == <<pc, op, MAX_RETRIES_GH, tags, only_update, substring, new_body,
            comments, comment_id, existing_body, body, path, files, fileText,
            cmd, shell_res, exits, sleeps, result>>
sumVars == <<spc, root, summary, markdown>>
vars == <<mergeVars, ghVars, sumVars>>

None == "None"

(***************************************************************************)
(* Bounds of the model.                                                    *)
(***************************************************************************)
MaxBodyChunks == 4      \* pieces of a working body handed to the merge step
MaxContentChunks == 1   \* pieces of a section's content
MaxRetries == 2         \* largest configured Settings.MAX_RETRIES_GH
MaxComments == 2        \* comments the provider returns
MaxJobs == 17           \* immediate children of the root result
MaxLeaves == 12         \* leaves below one job

(***************************************************************************)
(* Text helpers: Python's `in`, str.format, and re.sub with a non-greedy   *)
(* pattern START.*?END under re.DOTALL.                                    *)
(***************************************************************************)
NL == "\n"

Min(S) == CHOOSE x \in S : \A y \in S : x <= y

MatchAt(sub, str, i) ==
    /\ i >= 1
    /\ i + Len(sub) - 1 <= Len(str)
    /\ SubSeq(str, i, i + Len(sub) - 1) = sub

\* sub in str
Contains(sub, str) == \E i \in 1..(Len(str) + 1) : MatchAt(sub, str, i)

RECURSIVE Concat(_)
Concat(ss) == IF ss = <<>> THEN <<>> ELSE Head(ss) \o Concat(Tail(ss))

\* template.format(TAG=tag)
Format(template, tag) ==
    [i \in 1..Len(template) |-> IF template[i] = "{TAG}" THEN tag ELSE template[i]]

START_TEMPLATE == <<"<!-- CI automatic comment start :", "{TAG}", ": -->">>
END_TEMPLATE == <<"<!-- CI automatic comment end :", "{TAG}", ": -->">>

START(tag) == Format(START_TEMPLATE, tag)
END(tag) == Format(END_TEMPLATE, tag)

\* where the text after END may begin, for START matched at i: the first END
\* at or after the end of START (.*? takes as little as it can)
EndsAfter(s, e, str, i) == {j \in (i + Len(s))..Len(str) : MatchAt(e, str, j)}

\* a faulty variant: .* in place of .*?, the match runs to the last END
RECURSIVE ReSubGreedy(_, _, _, _, _)
ReSubGreedy(s, e, repl, str, pos) ==
    LET starts == {i \in pos..Len(str) :
                      MatchAt(s, str, i) /\ EndsAfter(s, e, str, i) # {}}
    IN  IF starts = {} THEN SubSeq(str, pos, Len(str))
        ELSE LET i == Min(starts)
                 j == CHOOSE x \in EndsAfter(s, e, str, i) :
                         \A y \in EndsAfter(s, e, str, i) : y <= x
             IN  SubSeq(str, pos, i - 1) \o repl
                   \o ReSubGreedy(s, e, repl, str, j + Len(e))

\* re.compile(f"{re.escape(s)}.*?{re.escape(e)}", re.DOTALL).sub(lambda m: repl, str),
\* scanning from position pos: every non-overlapping match, leftmost first
RECURSIVE ReSub(_, _, _, _, _)
ReSub(s, e, repl, str, pos) ==
    LET starts == {i \in pos..Len(str) :
                      MatchAt(s, str, i) /\ EndsAfter(s, e, str, i) # {}}
    IN  IF starts = {} THEN SubSeq(str, pos, Len(str))
        ELSE LET i == Min(starts)
                 j == Min(EndsAfter(s, e, str, i))
             IN  SubSeq(str, pos, i - 1) \o repl
                   \o ReSub(s, e, repl, str, j + Len(e))

\* f"{s}\n{content}\n{e}"
Section(tag, content) == START(tag) \o <<NL>> \o content \o <<NL>> \o END(tag)

\* a faulty variant: the section is appended whether or not the body holds it
MergeTagAlwaysAppend(b, tag, content) == b \o Section(tag, content) \o <<NL>>

\* the body of the merge loop for one tag
MergeTag(b, tag, content) ==
    LET s == START(tag)
        e == END(tag)
    IN  IF Contains(s, b) /\ Contains(e, b)
        THEN ReSub(s, e, Section(tag, content), b, 1)
        ELSE b \o Section(tag, content) \o <<NL>>

(***************************************************************************)
(* Inputs.                                                                 *)
(***************************************************************************)
Tags == {"a", "b"}

\* pieces a body is made of: the delimiters of the tags and plain text
Chunks == {START(t) : t \in Tags} \cup {END(t) : t \in Tags} \cup {<<"x">>}

RECURSIVE SeqsUpTo(_, _)
SeqsUpTo(S, n) ==
    IF n = 0 THEN {<<>>}
    ELSE LET shorter == SeqsUpTo(S, n - 1)
         IN  shorter \cup {Append(q, x) : q \in shorter, x \in S}

TextsOf(n) == {Concat(q) : q \in SeqsUpTo(Chunks, n)}

(***************************************************************************)
(* The merge step on its own.                                              *)
(***************************************************************************)
\* no command chosen yet
NoCmd == [kind |-> "none", id |-> 0, file |-> None]

GHIdle ==
    /\ pc = "off" /\ op = None /\ MAX_RETRIES_GH = 0 /\ tags = <<>>
    /\ only_update = FALSE /\ substring = <<>> /\ new_body = <<>>
    /\ comments = <<>> /\ comment_id = 0 /\ existing_body = <<>>
    /\ body = <<>> /\ path = None /\ files = {} /\ fileText = <<>>
    /\ cmd = NoCmd /\ shell_res = <<>> /\ exits = <<>>
    /\ sleeps = 0 /\ result = None

SumIdle ==
    /\ spc = "off"
    /\ root = [name |-> <<>>, status |-> "", results |-> <<>>]
    /\ summary = [name |-> <<>>, status |-> "", failed_results |-> <<>>]
    /\ markdown = <<>>

MergeIdle ==
    /\ mpc = "off" /\ mBody = <<>> /\ mTag = None /\ mContent = <<>>
    /\ mOnce = <<>> /\ mTwice = <<>>

InitMerge ==
    /\ mpc = "start"
    /\ mBody \in TextsOf(MaxBodyChunks)
    /\ mTag \in Tags
    /\ mContent \in TextsOf(MaxContentChunks)
    /\ mOnce = <<>> /\ mTwice = <<>>
    /\ GHIdle /\ SumIdle

MergeFirst ==
    /\ mpc = "start"
    /\ mOnce' = MergeTag(mBody, mTag, mContent)
    /\ mpc' = "once"
    /\ UNCHANGED <<mBody, mTag, mContent, mTwice, ghVars, sumVars>>

MergeSecond ==
    /\ mpc = "once"
    /\ mTwice' = MergeTag(mOnce, mTag, mContent)
    /\ mpc' = "twice"
    /\ UNCHANGED <<mBody, mTag, mContent, mOnce, ghVars, sumVars>>

NextMerge == MergeFirst \/ MergeSecond

SpecMerge == InitMerge /\ [][NextMerge]_vars

(***************************************************************************)
(* The operations of class GH.  One behaviour is one call.                 *)
(*   pc: idle -> [fetch -> prepare ->] [tmpfile -> write ->] decide        *)
(*            -> retry -> [finally ->] done                                *)
(* result is "True" or "False" for a returned value and "raised" when the  *)
(* call leaves with an exception.                                          *)
(***************************************************************************)
PermanentMarkers ==
    {<<"Validation Failed">>, <<"Bad credentials">>, <<"Resource not accessible">>}

\* standard error texts of the gh tool
Errs == {<<>>, <<"x">>,
         <<"HTTP 422: ", "Validation Failed">>,
         <<"Bad credentials">>,
         <<"x", "Resource not accessible", "x">>}

\* exit codes of the gh tool
Codes == {0, 1}

\* bodies of the comments the provider returns
CommentBodies ==
    { <<"x">>,
      START("a") \o <<"x">> \o END("a"),
      START("b") \o <<NL, "x", NL>> \o END("b") \o <<NL>>,
      END("a") \o <<"x">> \o START("a"),
      START("b") \o START("a") \o <<"x">> \o END("a") \o END("b"),
      START("a") \o <<"x">> }

\* json.loads of the fetched list: ids are the provider's, one per comment
CommentLists ==
    {[i \in 1..Len(q) |-> [id |-> i, body |-> q[i]]] :
        q \in SeqsUpTo(CommentBodies, MaxComments)}

Contents == {<<"x">>, <<"y">>}

\* comment_tags_and_bodies in iteration order: distinct tags, each with content
TagRequests ==
    {q \in SeqsUpTo(Tags \X Contents, Cardinality(Tags)) :
        \A i, j \in 1..Len(q) : i # j => q[i][1] # q[j][1]}

\* a faulty variant: a permanent error is retried like any other
RetryVerdictNoPermanent(c, e) == IF c = 0 THEN "True" ELSE "sleep"

\* one pass of the loop body after the command ran with exit code c and
\* standard error e: return True, return False, or sleep and go on
RetryVerdict(c, e) ==
    IF c = 0 THEN "True"
    ELSE IF \E p \in PermanentMarkers : Contains(p, e) THEN "False"
    ELSE "sleep"

\* the first comment, in fetched order, holding both delimiters of tag
FirstWithTag(tag, cs) ==
    LET hits == {i \in 1..Len(cs) :
                    Contains(START(tag), cs[i].body) /\ Contains(END(tag), cs[i].body)}
    IN  IF hits = {} THEN 0 ELSE Min(hits)

\* the search for the comment to update: tags in iteration order, for each
\* the comments in fetched order; the index of the comment found, or 0
RECURSIVE LocateTarget(_, _)
LocateTarget(tgs, cs) ==
    IF tgs = <<>> THEN 0
    ELSE IF FirstWithTag(Head(tgs)[1], cs) # 0 THEN FirstWithTag(Head(tgs)[1], cs)
    ELSE LocateTarget(Tail(tgs), cs)

\* the merge loop over all the requested tags
RECURSIVE MergeAll(_, _)
MergeAll(b, tgs) ==
    IF tgs = <<>> THEN b
    ELSE MergeAll(MergeTag(b, Head(tgs)[1], Head(tgs)[2]), Tail(tgs))

\* a faulty variant: only_update is not looked at
ChooseCommandIgnoresOnlyUpdate(cid, only, p) ==
    IF cid # 0 THEN [kind |-> "PATCH comment", id |-> cid, file |-> p]
    ELSE [kind |-> "pr comment", id |-> 0, file |-> p]

\* the command post_updateable_comment goes on with, NoCmd for `return False`
ChooseCommand(cid, only, p) ==
    IF cid # 0 THEN [kind |-> "PATCH comment", id |-> cid, file |-> p]
    ELSE IF ~only THEN [kind |-> "pr comment", id |-> 0, file |-> p]
    ELSE NoCmd

\* the first comment whose body holds the substring, or 0
FirstWithSubstring(sub, cs) ==
    LET hits == {i \in 1..Len(cs) : Contains(sub, cs[i].body)}
    IN  IF hits = {} THEN 0 ELSE Min(hits)

TempName == "tmp0"

InitGH ==
    /\ pc = "idle" /\ op = None
    /\ MAX_RETRIES_GH \in 0..MaxRetries
    /\ tags = <<>> /\ only_update = FALSE /\ substring = <<>> /\ new_body = <<>>
    /\ comments = <<>> /\ comment_id = 0 /\ existing_body = <<>>
    /\ body = <<>> /\ path = None /\ files = {} /\ fileText = <<>>
    /\ cmd = NoCmd /\ shell_res = <<>> /\ exits = <<>>
    /\ sleeps = 0 /\ result = None
    /\ MergeIdle /\ SumIdle

\* a caller such as post_commit_status or merge_pr hands a command over
CallDoCommand ==
    /\ pc = "idle"
    /\ op' = "do_command_with_retries"
    /\ cmd' = [kind |-> "other", id |-> 0, file |-> None]
    /\ pc' = "retry"
    /\ UNCHANGED <<MAX_RETRIES_GH, tags, only_update, substring, new_body, comments,
                   comment_id, existing_body, body, path, files, fileText,
                   shell_res, exits, sleeps, result, mergeVars, sumVars>>

CallPostPrComment ==
    /\ pc = "idle"
    /\ op' = "post_pr_comment"
    /\ body' \in {<<"x">>, START("a") \o <<"x">> \o END("a")}
    /\ substring' \in {<<>>, <<"x">>, START("a")}
    /\ pc' = "tmpfile"
    /\ UNCHANGED <<MAX_RETRIES_GH, tags, only_update, new_body, comments, comment_id,
                   existing_body, path, files, fileText, cmd,
                   shell_res, exits, sleeps, result, mergeVars, sumVars>>

CallPostUpdateableComment ==
    /\ pc = "idle"
    /\ op' = "post_updateable_comment"
    /\ tags' \in TagRequests
    /\ only_update' \in BOOLEAN
    /\ pc' = "fetch"
    /\ UNCHANGED <<MAX_RETRIES_GH, substring, new_body, comments, comment_id,
                   existing_body, body, path, files, fileText, cmd,
                   shell_res, exits, sleeps, result, mergeVars, sumVars>>

CallUpdatePrBody ==
    /\ pc = "idle"
    /\ op' = "update_pr_body"
    /\ new_body' \in {<<>>, <<"x">>}
    /\ pc' = IF new_body' # <<>> THEN "tmpfile" ELSE "decide"
    /\ UNCHANGED <<MAX_RETRIES_GH, tags, only_update, substring, comments, comment_id,
                   existing_body, body, path, files, fileText, cmd,
                   shell_res, exits, sleeps, result, mergeVars, sumVars>>

\* Shell.get_output and json.loads: the list of the comments, [] when the
\* output is empty or does not parse
FetchComments ==
    /\ pc = "fetch"
    /\ comments' \in CommentLists
    /\ pc' = "prepare"
    /\ UNCHANGED <<op, MAX_RETRIES_GH, tags, only_update, substring, new_body,
                   comment_id, existing_body, body, path, files, fileText, cmd,
                   shell_res, exits, sleeps, result, mergeVars, sumVars>>

\* the search for the target and the merge loop
Prepare ==
    /\ pc = "prepare"
    /\ LET i == LocateTarget(tags, comments)
       IN  /\ comment_id' = IF i = 0 THEN 0 ELSE comments[i].id
           /\ existing_body' = IF i = 0 THEN <<>> ELSE comments[i].body
           /\ body' = MergeAll(existing_body', tags)
    /\ pc' = "tmpfile"
    /\ UNCHANGED <<op, MAX_RETRIES_GH, tags, only_update, substring, new_body,
                   comments, path, files, fileText, cmd,
                   shell_res, exits, sleeps, result, mergeVars, sumVars>>

\* tempfile.NamedTemporaryFile(mode="w", delete=False): the file exists from here
CreateTemp ==
    /\ pc = "tmpfile"
    /\ files' = files \cup {TempName}
    /\ pc' = "write"
    /\ UNCHANGED <<op, MAX_RETRIES_GH, tags, only_update, substring, new_body,
                   comments, comment_id, existing_body, body, path, fileText, cmd,
                   shell_res, exits, sleeps, result, mergeVars, sumVars>>

\* f.write(text); path = f.name
WriteTemp ==
    /\ pc = "write"
    /\ fileText' = IF op = "update_pr_body" THEN new_body ELSE body
    /\ path' = TempName
    /\ pc' = "decide"
    /\ UNCHANGED <<op, MAX_RETRIES_GH, tags, only_update, substring, new_body,
                   comments, comment_id, existing_body, body, files, cmd,
                   shell_res, exits, sleeps, result, mergeVars, sumVars>>

\* f.write raises (a text utf-8 cannot encode, a full disk): the with block
\* closes the file, path is still None, the exception goes to finally
WriteRaises ==
    /\ pc = "write"
    /\ result' = "raised"
    /\ pc' = "finally"
    /\ UNCHANGED <<op, MAX_RETRIES_GH, tags, only_update, substring, new_body,
                   comments, comment_id, existing_body, body, path, files, fileText,
                   cmd, shell_res, exits, sleeps, mergeVars, sumVars>>

DecidePostPrComment ==
    /\ pc = "decide" /\ op = "post_pr_comment"
    /\ IF substring # <<>>
       THEN /\ comments' \in CommentLists
            /\ LET i == FirstWithSubstring(substring, comments')
               IN  cmd' = IF i # 0
                          THEN [kind |-> "PATCH comment", id |-> comments'[i].id, file |-> path]
                          ELSE [kind |-> "pr comment", id |-> 0, file |-> path]
       ELSE /\ comments' = comments
            /\ cmd' = [kind |-> "pr comment", id |-> 0, file |-> path]
    /\ pc' = "retry"
    /\ UNCHANGED <<op, MAX_RETRIES_GH, tags, only_update, substring, new_body,
                   comment_id, existing_body, body, path, files, fileText,
                   shell_res, exits, sleeps, result, mergeVars, sumVars>>

DecidePostUpdateableComment ==
    /\ pc = "decide" /\ op = "post_updateable_comment"
    /\ cmd' = ChooseCommand(comment_id, only_update, path)
    /\ IF cmd' = NoCmd
       THEN result' = "False" /\ pc' = "finally"
       ELSE result' = result /\ pc' = "retry"
    /\ UNCHANGED <<op, MAX_RETRIES_GH, tags, only_update, substring, new_body,
                   comments, comment_id, existing_body, body, path, files, fileText,
                   shell_res, exits, sleeps, mergeVars, sumVars>>

DecideUpdatePrBody ==
    /\ pc = "decide" /\ op = "update_pr_body"
    /\ cmd' = [kind |-> "PATCH pull", id |-> 0,
               file |-> IF new_body # <<>> THEN path ELSE "body_file"]
    /\ pc' = "retry"
    /\ UNCHANGED <<op, MAX_RETRIES_GH, tags, only_update, substring, new_body,
                   comments, comment_id, existing_body, body, path, files, fileText,
                   shell_res, exits, sleeps, result, mergeVars, sumVars>>

\* where do_command_with_retries returns to
AfterCommand == IF op = "do_command_with_retries" THEN "done" ELSE "finally"

\* one pass of `for _ in range(Settings.MAX_RETRIES_GH)`
Attempt ==
    /\ pc = "retry"
    /\ Len(exits) < MAX_RETRIES_GH
    /\ \E c \in Codes, e \in Errs :
          /\ shell_res' = <<c, e>>
          /\ exits' = Append(exits, c)
          /\ LET v == RetryVerdict(c, e)
             IN  IF v = "sleep"
                 THEN /\ sleeps' = sleeps + 1
                      /\ UNCHANGED <<pc, result>>
                 ELSE /\ result' = v
                      /\ pc' = AfterCommand
                      /\ UNCHANGED sleeps
    /\ UNCHANGED <<op, MAX_RETRIES_GH, tags, only_update, substring, new_body,
                   comments, comment_id, existing_body, body, path, files, fileText,
                   cmd, mergeVars, sumVars>>

\* the loop is over: the print reads out and err, which no pass has bound
\* when the range was empty (UnboundLocalError); otherwise return False
Exhausted ==
    /\ pc = "retry"
    /\ Len(exits) >= MAX_RETRIES_GH
    /\ result' = IF shell_res = <<>> THEN "raised" ELSE "False"
    /\ pc' = AfterCommand
    /\ UNCHANGED <<op, MAX_RETRIES_GH, tags, only_update, substring, new_body,
                   comments, comment_id, existing_body, body, path, files, fileText,
                   cmd, shell_res, exits, sleeps, mergeVars, sumVars>>

\* finally: if path and os.path.exists(path): os.unlink(path)
Finally ==
    /\ pc = "finally"
    /\ files' = IF path # None /\ path \in files THEN files \ {path} ELSE files
    /\ pc' = "done"
    /\ UNCHANGED <<op, MAX_RETRIES_GH, tags, only_update, substring, new_body,
                   comments, comment_id, existing_body, body, path, fileText,
                   cmd, shell_res, exits, sleeps, result, mergeVars, sumVars>>

NextGH ==
    \/ CallDoCommand
    \/ CallPostPrComment
    \/ CallPostUpdateableComment
    \/ CallUpdatePrBody
    \/ FetchComments
    \/ Prepare
    \/ CreateTemp
    \/ WriteTemp
    \/ WriteRaises
    \/ DecidePostPrComment
    \/ DecidePostUpdateableComment
    \/ DecideUpdatePrBody
    \/ Attempt
    \/ Exhausted
    \/ Finally

SpecGH == InitGH /\ [][NextGH]_vars

(***************************************************************************)
(* ResultSummaryForGH.  A Result is [name, status, results]; a summary is  *)
(* [name, status, failed_results].  The info strings built from the        *)
(* results' hlabels and the timing fields are carried through unchanged by *)
(* the code and are left out.  A markdown body is a sequence of lines, a   *)
(* line a sequence of pieces of text.                                      *)
(***************************************************************************)
MAX_TEST_CASES_PER_JOB == 10
MAX_JOBS_PER_SUMMARY == 15
\* the literal to_markdown compares with and slices by
MARKDOWN_JOBS_SHOWN == 15

\* Result.is_completed and Result.is_ok
is_completed(r) == r.status \in {"SUCCESS", "FAILED", "ERROR"}
is_ok(r) == r.status = "SUCCESS"

Failing(r) == is_completed(r) /\ ~is_ok(r)

\* flatten_results: the leaves below results, depth first
RECURSIVE flatten_results(_)
flatten_results(results) ==
    IF results = <<>> THEN <<>>
    ELSE (IF Head(results).results = <<>>
          THEN <<Head(results)>>
          ELSE flatten_results(Head(results).results))
         \o flatten_results(Tail(results))

priority(r) == IF r.status = "FAILED" THEN 0 ELSE IF r.status = "ERROR" THEN 1 ELSE 2

IsPriority0(r) == priority(r) = 0
IsPriority1(r) == priority(r) = 1
IsPriority2(r) == priority(r) = 2

\* sorted([r for r in result.results if ...], key=priority): a stable sort
\* on three keys
failed(res) ==
    LET chosen == SelectSeq(res.results, Failing)
    IN  SelectSeq(chosen, IsPriority0) \o SelectSeq(chosen, IsPriority1)
          \o SelectSeq(chosen, IsPriority2)

Entry(r) == [name |-> r.name, status |-> r.status, failed_results |-> <<>>]

\* the failing leaves below a job, as summary entries
FailedLeaves(sub) ==
    LET leaves == SelectSeq(flatten_results(sub.results), Failing)
    IN  [i \in 1..Len(leaves) |-> Entry(leaves[i])]

\* a faulty variant: >= in place of >
CapTestCasesOffByOne(fr) ==
    IF Len(fr) >= MAX_TEST_CASES_PER_JOB
    THEN Append(SubSeq(fr, 1, MAX_TEST_CASES_PER_JOB),
                [name |-> <<ToString(Len(fr) - MAX_TEST_CASES_PER_JOB), " more not shown">>,
                 status |-> "", failed_results |-> <<>>])
    ELSE fr

\* the cut of a job's list to MAX_TEST_CASES_PER_JOB entries and a sentinel
CapTestCases(fr) ==
    IF Len(fr) > MAX_TEST_CASES_PER_JOB
    THEN Append(SubSeq(fr, 1, MAX_TEST_CASES_PER_JOB),
                [name |-> <<ToString(Len(fr) - MAX_TEST_CASES_PER_JOB), " more not shown">>,
                 status |-> "", failed_results |-> <<>>])
    ELSE fr

\* the cut of the summary's list to MAX_JOBS_PER_SUMMARY entries
CapJobs(jobs) ==
    IF Len(jobs) > MAX_JOBS_PER_SUMMARY THEN SubSeq(jobs, 1, MAX_JOBS_PER_SUMMARY) ELSE jobs

from_result(res) ==
    LET subs == failed(res)
        jobs == [i \in 1..Len(subs) |->
                    [name |-> subs[i].name, status |-> subs[i].status,
                     failed_results |-> CapTestCases(FailedLeaves(subs[i]))]]
    IN  [name |-> res.name, status |-> res.status,
         failed_results |-> CapJobs(jobs)]

Symbol(status) ==
    IF status = "SUCCESS" THEN "ok-mark" ELSE IF status = "FAILED" THEN "x-mark"
    ELSE "hourglass"

TestRows(job) ==
    [j \in 1..Len(job.failed_results) |->
        <<"| |">> \o job.failed_results[j].name
          \o <<"|", job.failed_results[j].status, "|", "", "||">>]

JobRows(job) ==
    << <<"|[">> \o job.name \o <<"](", "report-url:">> \o job.name
         \o <<")||", job.status, "|", "", "||">> >>
    \o TestRows(job)

RECURSIVE AllJobRows(_)
AllJobRows(jobs) ==
    IF jobs = <<>> THEN <<>> ELSE JobRows(Head(jobs)) \o AllJobRows(Tail(jobs))

to_markdown(self) ==
    << <<"**Summary:** ", Symbol(self.status)>> >>
    \o (IF self.failed_results # <<>>
        THEN (IF Len(self.failed_results) > MARKDOWN_JOBS_SHOWN
              THEN << <<" *15 out of ", ToString(Len(self.failed_results)),
                        " failures shown*">> >>
              ELSE <<>>)
             \o << <<"|job_name|test_name|status|info|comment|">>,
                   <<"|:--|:--|:-:|:--|:--|">> >>
             \o AllJobRows(SubSeq(self.failed_results, 1,
                                  IF Len(self.failed_results) > MARKDOWN_JOBS_SHOWN
                                  THEN MARKDOWN_JOBS_SHOWN
                                  ELSE Len(self.failed_results)))
        ELSE <<>>)

\* ---- the result trees the summary is built from
Cycle(q, i) == q[((i - 1) % Len(q)) + 1]

JobStatuses ==
    << <<"FAILED">>,
       <<"SUCCESS", "FAILED", "ERROR", "FAILED">>,
       <<"ERROR", "RUNNING", "FAILED">> >>

LeafStatuses ==
    << <<"FAILED">>,
       <<"FAILED", "SUCCESS", "ERROR">>,
       <<"ERROR", "PENDING", "FAILED", "FAILED">> >>

Leaf(seed, i, j) ==
    [name |-> <<"test", ToString(i), ToString(j)>>,
     status |-> Cycle(LeafStatuses[seed], i + j), results |-> <<>>]

\* n leaves, in one flat list or below two intermediate results
JobResults(seed, i, n, nested) ==
    LET leaves == [j \in 1..n |-> Leaf(seed, i, j)]
        half == n \div 2
    IN  IF nested /\ n >= 2
        THEN << [name |-> <<"group", ToString(i), "1">>, status |-> "FAILED",
                 results |-> SubSeq(leaves, 1, half)],
                [name |-> <<"group", ToString(i), "2">>, status |-> "FAILED",
                 results |-> SubSeq(leaves, half + 1, n)] >>
        ELSE leaves

TreeOf(seed, nJobs, k, nested) ==
    [name |-> <<"workflow">>,
     status |-> IF nJobs = 0 THEN "SUCCESS" ELSE "FAILED",
     results |-> [i \in 1..nJobs |->
                    [name |-> <<"job", ToString(i)>>,
                     status |-> Cycle(JobStatuses[seed], i),
                     results |-> JobResults(seed, i,
                                            IF i % 2 = 1 THEN k ELSE i % 3, nested)]]]

NoSummary == [name |-> <<>>, status |-> "", failed_results |-> <<>>]

InitSummary ==
    /\ spc = "start"
    /\ \E seed \in 1..Len(JobStatuses), n \in 0..MaxJobs, k \in 0..MaxLeaves,
          nested \in BOOLEAN :
          root = TreeOf(seed, n, k, nested)
    /\ summary = NoSummary
    /\ markdown = <<>>
    /\ MergeIdle /\ GHIdle

FromResult ==
    /\ spc = "start"
    /\ summary' = from_result(root)
    /\ spc' = "summarized"
    /\ UNCHANGED <<root, markdown, mergeVars, ghVars>>

ToMarkdown ==
    /\ spc = "summarized"
    /\ markdown' = to_markdown(summary)
    /\ spc' = "rendered"
    /\ UNCHANGED <<root, summary, mergeVars, ghVars>>

NextSummary == FromResult \/ ToMarkdown

SpecSummary == InitSummary /\ [][NextSummary]_vars

(***************************************************************************)
(* Claims about the merge step.                                            *)
(***************************************************************************)
\* occurrences of sub in str
Count(sub, str) == Cardinality({i \in 1..Len(str) : MatchAt(sub, str, i)})

\* what appending the section of (mTag, mContent) to mBody gives
Appended == mBody \o START(mTag) \o <<NL>> \o mContent \o <<NL>> \o END(mTag) \o <<NL>>

LacksDelimiters == ~Contains(START(mTag), mBody) /\ ~Contains(END(mTag), mBody)

\* C5 as stated: for every content and every body that holds neither
\* delimiter of the tag, merging twice leaves exactly one START and one END
\* of the tag, and the second merge changes nothing.
C5_TwiceIsOnce ==
    (mpc = "twice" /\ LacksDelimiters) =>
        /\ Count(START(mTag), mTwice) = 1
        /\ Count(END(mTag), mTwice) = 1
        /\ mTwice = mOnce

\* C5 amended: the same, for the bodies and contents whose appended text
\* holds START and END of the tag once each (the content holds no delimiter
\* of its own tag): the first merge appends, the second changes nothing.
C5_TwiceIsOnceCleanContent ==
    (/\ mpc = "twice"
     /\ LacksDelimiters
     /\ Count(START(mTag), Appended) = 1
     /\ Count(END(mTag), Appended) = 1) =>
        /\ mOnce = Appended
        /\ mTwice = mOnce
        /\ Count(START(mTag), mTwice) = 1
        /\ Count(END(mTag), mTwice) = 1

\* a body with text and another tag's delimiters, a content with text
C5_Witness ==
    /\ mpc = "twice"
    /\ LacksDelimiters
    /\ Count(START(mTag), Appended) = 1
    /\ Count(END(mTag), Appended) = 1
    /\ mContent # <<>>
    /\ \E t \in Tags \ {mTag} : Contains(START(t), mBody)
    /\ Len(mTwice) > Len(mBody)

\* str holds START(tag) with END(tag) somewhere after it
HasSpan(tag, str) ==
    \E i \in 1..Len(str) :
        MatchAt(START(tag), str, i) /\ EndsAfter(START(tag), END(tag), str, i) # {}

\* the first span: from the first START that has an END after it ...
SpanFirst(tag, str) ==
    Min({i \in 1..Len(str) :
            MatchAt(START(tag), str, i)
            /\ EndsAfter(START(tag), END(tag), str, i) # {}})
\* ... through the first END after that START
SpanLast(tag, str) ==
    Min(EndsAfter(START(tag), END(tag), str, SpanFirst(tag, str))) + Len(END(tag)) - 1

\* C6 as stated: the text before the span and the text after the span are
\* unchanged, and only the span is rewritten.
C6_OutsideSpanKept ==
    (mpc = "once" /\ HasSpan(mTag, mBody)) =>
        mOnce = SubSeq(mBody, 1, SpanFirst(mTag, mBody) - 1)
                  \o Section(mTag, mContent)
                  \o SubSeq(mBody, SpanLast(mTag, mBody) + 1, Len(mBody))

\* out is str with each of its spans, taken left to right, rewritten to the
\* section and every token between, before and after the spans kept
RECURSIVE SpansRewritten(_, _, _, _)
SpansRewritten(tag, content, str, out) ==
    IF ~HasSpan(tag, str) THEN out = str
    ELSE LET i == SpanFirst(tag, str)
             j == SpanLast(tag, str)
             n == Len(Section(tag, content))
         IN  /\ Len(out) >= i - 1 + n
             /\ SubSeq(out, 1, i - 1) = SubSeq(str, 1, i - 1)
             /\ SubSeq(out, i, i - 1 + n) = Section(tag, content)
             /\ SpansRewritten(tag, content,
                               SubSeq(str, j + 1, Len(str)),
                               SubSeq(out, i + n, Len(out)))

\* C6 amended: a body may hold several spans of the tag; each one (from a
\* START to the first END after it, left to right) is rewritten, and all the
\* text outside the spans is unchanged.
C6_OutsideSpansKept ==
    (mpc = "once" /\ HasSpan(mTag, mBody)) =>
        SpansRewritten(mTag, mContent, mBody, mOnce)

\* two spans of the tag with text before, between and after them
C6_Witness ==
    /\ mpc = "once"
    /\ HasSpan(mTag, mBody)
    /\ HasSpan(mTag, SubSeq(mBody, SpanLast(mTag, mBody) + 1, Len(mBody)))
    /\ mOnce # mBody

\* one span, with the region of the other tag and text around it
C6_WitnessOneSpan ==
    /\ mpc = "once"
    /\ HasSpan(mTag, mBody)
    /\ SpanFirst(mTag, mBody) > 1
    /\ SpanLast(mTag, mBody) < Len(mBody)
    /\ ~HasSpan(mTag, SubSeq(mBody, SpanLast(mTag, mBody) + 1, Len(mBody)))

(***************************************************************************)
(* Claims about the command executor and the comment operations.           *)
(***************************************************************************)
\* do_command_with_retries has been called and has left
Returned == cmd # NoCmd /\ pc \in {"finally", "done"}

ZeroExit == \E i \in 1..Len(exits) : exits[i] = 0

\* what C1 says of a call that has left
RetryContract ==
    /\ Len(exits) <= MAX_RETRIES_GH
    /\ (result = "True") <=> ZeroExit
    /\ \A i \in 1..Len(exits) : exits[i] = 0 => i = Len(exits)
    /\ (Len(exits) = MAX_RETRIES_GH /\ ~ZeroExit) => result = "False"

\* C1 as stated: for every MAX_RETRIES_GH the command runs at most
\* MAX_RETRIES_GH times, the call returns True exactly when a run exits with
\* 0, which is then the last run, and returns False when all the runs are
\* used up without a zero exit code.
C1_RetryContract == Returned => RetryContract

\* C1 for the configurations with at least one attempt
C1_RetryContractFromOneAttempt ==
    (Returned /\ MAX_RETRIES_GH >= 1) => RetryContract

\* the last run of the command failed with a permanent-failure marker
PermanentFailure ==
    /\ shell_res # <<>>
    /\ shell_res[1] # 0
    /\ \E p \in PermanentMarkers : Contains(p, shell_res[2])

\* C2: after a run that exits non-zero with a permanent-failure marker in
\* its standard error the call has returned False without sleeping (every
\* earlier run slept once, this one did not), and from then on the command
\* is never run and no sleep happens.
C2_PermanentStops ==
    /\ [](PermanentFailure =>
            /\ result = "False"
            /\ pc # "retry"
            /\ sleeps = Len(exits) - 1)
    /\ [][PermanentFailure =>
            /\ exits' = exits
            /\ sleeps' = sleeps
            /\ result' = result]_vars

\* a permanent failure on the first of several attempts
C2_Witness ==
    /\ PermanentFailure
    /\ Len(exits) = 1
    /\ MAX_RETRIES_GH > 1
    /\ pc = "done"

\* post_updateable_comment is past its search and merge
Prepared ==
    /\ op = "post_updateable_comment"
    /\ pc \in {"tmpfile", "write", "decide", "retry", "finally", "done"}

HoldsPair(tag, text) == Contains(START(tag), text) /\ Contains(END(tag), text)

\* the comments that hold the delimiter pair of a requested tag
Matching ==
    {i \in 1..Len(comments) : \E k \in 1..Len(tags) : HoldsPair(tags[k][1], comments[i].body)}

\* C3: with no matching comment and only_update set, the operation runs no
\* command at all (neither the PATCH nor the create) and returns False; it
\* leaves with an exception instead only when writing the file raised.
C3_OnlyUpdateNotFound ==
    (Prepared /\ only_update /\ Matching = {}) =>
        /\ cmd = NoCmd
        /\ exits = <<>>
        /\ pc # "retry"
        /\ pc = "done" => result = (IF path = None THEN "raised" ELSE "False")

\* comments were fetched, none matches, only_update: False is returned
C3_Witness ==
    /\ Prepared /\ only_update /\ Matching = {}
    /\ Len(comments) > 0 /\ tags # <<>>
    /\ pc = "done" /\ result = "False"

\* C4 as stated: when an operation is over, on every exit path, the
\* temporary file it created is gone.
C4_TempFilesDeleted == pc = "done" => files = {}

\* C4 for the exits where the body was written: the file is gone
C4_DeletedOnceWritten == (pc = "done" /\ path # None) => files = {}

\* the earliest matching comment in fetched order, 0 when none matches
EarliestMatch == IF Matching = {} THEN 0 ELSE Min(Matching)

\* C9 as stated: the target is the earliest comment that holds the pair of
\* any requested tag, whatever the order of the tags; its body starts the
\* merge and it is the comment PATCHed; with no match the start is empty and
\* a comment is created unless only_update.
C9_TargetIsEarliest ==
    Prepared =>
        /\ comment_id = (IF EarliestMatch = 0 THEN 0 ELSE comments[EarliestMatch].id)
        /\ existing_body = (IF EarliestMatch = 0 THEN <<>> ELSE comments[EarliestMatch].body)
        /\ (cmd # NoCmd /\ EarliestMatch # 0) =>
              (cmd.kind = "PATCH comment" /\ cmd.id = comments[EarliestMatch].id)
        /\ (cmd # NoCmd /\ EarliestMatch = 0) => (cmd.kind = "pr comment" /\ ~only_update)

\* C10 as stated: after the merge loop the body holds, for every requested
\* tag, START, newline, its content, newline, END.
C10_SectionsPresent ==
    Prepared =>
        \A k \in 1..Len(tags) : Contains(Section(tags[k][1], tags[k][2]), body)

(***************************************************************************)
(* Claims about the failure summary.                                       *)
(***************************************************************************)
Sentinel(n) == <<ToString(n), " more not shown">>

\* entry is the summary of job sub: all of its failing leaves when they are
\* at most 10, else the first 10 and one sentinel counting the rest
JobEntryCapped(entry, sub) ==
    LET leaves == FailedLeaves(sub)
        fr == entry.failed_results
    IN  /\ entry.name = sub.name
        /\ IF Len(leaves) <= 10 THEN fr = leaves
           ELSE /\ Len(fr) = 11
                /\ SubSeq(fr, 1, 10) = SubSeq(leaves, 1, 10)
                /\ fr[11].name = Sentinel(Len(leaves) - 10)

\* C7: the summary holds the first 15 of the selected failing children, all
\* of them when they are fewer, and each entry's list is capped at 10 with
\* one "N more not shown" sentinel.
C7_SummaryCapped ==
    spc \in {"summarized", "rendered"} =>
        LET jobs == summary.failed_results
            selected == failed(root)
        IN  /\ Len(jobs) <= 15
            /\ Len(jobs) = (IF Len(selected) > 15 THEN 15 ELSE Len(selected))
            /\ \A i \in 1..Len(jobs) : JobEntryCapped(jobs[i], selected[i])

\* more than 15 failing jobs, one with more than 10 failing leaves, one with
\* exactly 10 and one with fewer
C7_Witness ==
    /\ spc = "summarized"
    /\ Len(failed(root)) > 15
    /\ Len(summary.failed_results) = 15
    /\ \E i \in 1..15 : Len(FailedLeaves(failed(root)[i])) > 10
    /\ \E i \in 1..15 : Len(FailedLeaves(failed(root)[i])) \in 1..9

\* exactly 10 failing leaves: no sentinel
C7_WitnessAtTheCap ==
    /\ spc = "summarized"
    /\ \E i \in 1..Len(summary.failed_results) :
          /\ Len(FailedLeaves(failed(root)[i])) = 10
          /\ Len(summary.failed_results[i].failed_results) = 10

IsNote(line) == Len(line) = 3 /\ line[1] = " *15 out of " /\ line[3] = " failures shown*"
IsHeader(line) == line = <<"|job_name|test_name|status|info|comment|">>

\* from_result cut the list of jobs
JobsTruncated == Len(SelectSeq(root.results, Failing)) > 15

\* C8 as stated: the markdown of a summary whose jobs were truncated has a
\* note line before the table header, and the markdown of any other summary
\* has no note line.
C8_TruncationNote ==
    spc = "rendered" =>
        /\ JobsTruncated =>
              \E i, h \in 1..Len(markdown) :
                  i < h /\ IsNote(markdown[i]) /\ IsHeader(markdown[h])
        /\ ~JobsTruncated => \A i \in 1..Len(markdown) : ~IsNote(markdown[i])

====
